---- MODULE Spec2Model ----
(***************************************************************************)
(* A model of barnstorm/cliapi.                                            *)
(*                                                                         *)
(*   src/agent-client.py  the session client: send_message, send_clear,    *)
(*                        read_responses, extract_text, call, main         *)
(*   src/agent_server.py  the HTTP gateway: check_auth, chat_completions    *)
(*                                                                         *)
(* Wire text.  The outbound channel carries bytes.  A byte is a string:    *)
(* "\n" is the newline, " " a blank, "C3" "A9" the two bytes of the UTF-8   *)
(* encoding of U+00E9, every other byte an ASCII letter.  A JSON document  *)
(* is written in an abbreviated syntax, one letter for the object's fixed  *)
(* part followed by the characters of its text:                            *)
(*    r<text>   {"type":"result","result":"<text>"}                        *)
(*    e         {"type":"error"}                                           *)
(*    a<text>   {"type":"assistant","message":{"content":                  *)
(*                               [{"type":"text","text":"<text>"}]}}       *)
(*    5         the JSON number 5 (a document that is no object)           *)
(* and anything else is no JSON document.  A JSON object is a record; a    *)
(* JSON value that is no object is the record [json_scalar |-> v].  Text   *)
(* is a sequence of characters.                                            *)
(***************************************************************************)
EXTENDS Integers, Sequences, FiniteSets, TLC

\* ------------------------------------------------------------------ bounds
\* lines the agent writes over a run
MaxLines == 2
\* calls made one after the other on the same channel pair
MaxCalls == 2
\* envelopes in a sequence handed to extract_text
MaxEnvelopes == 3
\* messages in a history handed to messages_to_prompt
MaxMessages == 3
\* characters in a completed text handed to stream_response
MaxTextLen == 45

\* ------------------------------------------------------- program constants
\* os.read(fd, 4096)
READ_SIZE == 4096

VARIABLES
  \* --- the session client (agent-client.py)
  mode,          \* "call": main -> call();  "raw": main --raw
  clear,         \* call(clear=...), main: not args.no_clear
  fifoInExists,  \* os.path.exists(FIFO_IN)
  fifoOutExists, \* FIFO_OUT is there to be opened
  pc,            \* position of the client in call / main
  pass,          \* the read_responses pass running: "primary" | "drain" | "none"
  buffer,        \* read_responses: buffer (decoded characters)
  yielded,       \* the envelopes the running pass has yielded so far
  chunks,        \* the chunks the running pass has read so far (history)
  responses,     \* call: responses = list(read_responses(timeout))
  result,        \* call: result = extract_text(responses)
  printed,       \* main --raw: the values printed, in order
  outcome,       \* how the call ended: "none" while running
  callNo,        \* the number of the call running
  inWrites,      \* writes attempted on the FIFO_IN path, in order (history)
  outOpens,      \* opens attempted on FIFO_OUT (history)
  \* --- the channels and the agent process behind them
  inbound,       \* envelopes in the inbound channel the agent has not taken
  pipe,          \* bytes in the outbound channel not yet read
  writerOpen,    \* the agent holds the write end of the outbound channel
  agentTurn,     \* the inbound message the agent is answering
  agentLine,     \* the bytes of its current line it has still to write
  agentCount,    \* the lines it has started so far
  \* --- the gateway (agent_server.py)
  API_KEY,          \* os.environ AGENT_GATEWAY_KEY, "" when unset
  FORCE_AGENT,      \* os.environ AGENT_GATEWAY_FORCE_AGENT, "" when unset
  reqHeaders,       \* request.headers
  reqBody,          \* what request.get_json() has to work on
  gwpc,             \* position of chat_completions
  data,             \* chat_completions: data
  routed,           \* chat_completions: agent, model, prompt, context, json_schema
  response_content, \* chat_completions: response_content
  httpStatus,       \* the HTTP status answered, 0 before the answer
  respBody,         \* the body answered
  invocations,      \* the command lines handed to subprocess.run, in order
  agentRun          \* call_agent: what subprocess.run did, None before it ran

vars == <<mode, clear, fifoInExists, fifoOutExists, pc, pass, buffer, yielded,
          chunks, responses, result, printed, outcome, callNo, inWrites,
          outOpens, inbound, pipe, writerOpen, agentTurn, agentLine, agentCount>>

clientVars == <<mode, clear, fifoInExists, fifoOutExists, pc, pass, buffer,
                yielded, chunks, responses, result, printed, outcome, callNo,
                inWrites, outOpens>>

agentVars == <<writerOpen, agentTurn, agentLine, agentCount>>

gwVars == <<API_KEY, FORCE_AGENT, reqHeaders, reqBody, gwpc, data, routed,
            response_content, httpStatus, respBody, invocations, agentRun>>

allvars == <<vars, gwVars>>

\* Python's None
None == [json_scalar |-> "None"]

\* no request is being handled
GatewayIdle ==
  /\ API_KEY = <<>> /\ FORCE_AGENT = ""
  /\ reqHeaders = <<>> /\ reqBody = [kind |-> "json", value |-> None]
  /\ gwpc = "idle" /\ data = None /\ routed = None
  /\ response_content = <<>> /\ httpStatus = 0 /\ respBody = None
  /\ invocations = <<>> /\ agentRun = None

\* ------------------------------------------------------------ dictionaries
\* dict.get(k, default)
Get(d, k, default) == IF k \in DOMAIN d THEN d[k] ELSE default

\* isinstance(v, dict), for a value json.loads returned
IsDict(v) == "json_scalar" \notin DOMAIN v

\* ------------------------------------------------------------------- text
Whitespace == {" ", "\n"}

RECURSIVE Flatten(_)
\* "".join(parts)
Flatten(parts) ==
  IF parts = <<>> THEN <<>> ELSE Head(parts) \o Flatten(Tail(parts))

RECURSIVE LStrip(_)
LStrip(s) ==
  IF s # <<>> /\ Head(s) \in Whitespace THEN LStrip(Tail(s)) ELSE s

RECURSIVE RStrip(_)
RStrip(s) ==
  IF s # <<>> /\ s[Len(s)] \in Whitespace
    THEN RStrip(SubSeq(s, 1, Len(s) - 1))
    ELSE s

\* str.strip()
Strip(s) == RStrip(LStrip(s))

\* the index of the first "\n" of s, 0 when it has none
FirstNewline(s) ==
  IF \E i \in 1..Len(s) : s[i] = "\n"
    THEN CHOOSE i \in 1..Len(s) : s[i] = "\n" /\ \A j \in 1..(i - 1) : s[j] # "\n"
    ELSE 0

RECURSIVE decode_utf8(_)
\* bytes.decode("utf-8"): [ok, chars]; ok is FALSE where Python raises
\* UnicodeDecodeError (a lead byte without its continuation byte, which is
\* also what a chunk ending inside a character is, or a stray continuation)
decode_utf8(bs) ==
  IF bs = <<>> THEN [ok |-> TRUE, chars |-> <<>>]
  ELSE IF Head(bs) = "C3" THEN
    IF Len(bs) >= 2 /\ bs[2] = "A9"
      THEN LET r == decode_utf8(SubSeq(bs, 3, Len(bs)))
           IN  [ok |-> r.ok, chars |-> <<"U+E9">> \o r.chars]
      ELSE [ok |-> FALSE, chars |-> <<>>]
  ELSE IF Head(bs) = "A9" THEN [ok |-> FALSE, chars |-> <<>>]
  ELSE LET r == decode_utf8(Tail(bs))
       IN  [ok |-> r.ok, chars |-> <<Head(bs)>> \o r.chars]

\* the characters a JSON string of the abbreviated syntax may hold
TextChars == {"h", "c", "U+E9"}

\* json.loads(line): [ok, value]; ok is FALSE where Python raises
\* json.JSONDecodeError.  Leading and trailing whitespace is allowed.
json_loads(line) ==
  LET s == Strip(line)
      text == IF s = <<>> THEN <<>> ELSE Tail(s)
      isText == \A i \in 1..Len(text) : text[i] \in TextChars
      bad == [ok |-> FALSE, value |-> [json_scalar |-> 0]]
  IN  IF s = <<>> THEN bad
      ELSE IF s = <<"5">> THEN [ok |-> TRUE, value |-> [json_scalar |-> 5]]
      ELSE IF s = <<"e">> THEN [ok |-> TRUE, value |-> [type |-> "error"]]
      ELSE IF s[1] = "r" /\ isText
        THEN [ok |-> TRUE, value |-> [type |-> "result", result |-> text]]
      ELSE IF s[1] = "a" /\ isText
        THEN [ok |-> TRUE,
              value |-> [type |-> "assistant",
                         message |-> [content |->
                                        <<[type |-> "text", text |-> text]>>]]]
      ELSE bad

\* ------------------------------------------------------------ extract_text
RECURSIVE BlockTexts(_)
\* extract_text, the loop over the content blocks of an assistant message
BlockTexts(content) ==
  IF content = <<>> THEN <<>>
  ELSE LET block == Head(content)
       IN  (IF IsDict(block) /\ Get(block, "type", "None") = "text"
              THEN <<Get(block, "text", <<>>)>>
              ELSE <<>>) \o BlockTexts(Tail(content))

RECURSIVE ExtractLoop(_, _)
\* extract_text, the loop over responses with parts so far
ExtractLoop(rs, parts) ==
  IF rs = <<>> THEN Flatten(parts)
  ELSE LET msg == Head(rs)
           msg_type == Get(msg, "type", "")
       IN  IF msg_type = "result" THEN Get(msg, "result", <<>>)
           ELSE IF msg_type = "assistant"
             THEN ExtractLoop(Tail(rs),
                    parts \o BlockTexts(Get(Get(msg, "message", <<>>), "content", <<>>)))
           ELSE IF msg_type = "content_block_delta"
             THEN LET delta == Get(msg, "delta", <<>>)
                  IN  ExtractLoop(Tail(rs),
                        IF Get(delta, "type", "None") = "text_delta"
                          THEN Append(parts, Get(delta, "text", <<>>))
                          ELSE parts)
           ELSE ExtractLoop(Tail(rs), parts)

\* extract_text without the early return on a result envelope
extract_text_NoShortCircuit(rs) ==
  ExtractLoop(SelectSeq(rs, LAMBDA m : Get(m, "type", "") # "result"), <<>>)

extract_text(rs) == ExtractLoop(rs, <<>>)

\* ---------------------------------------------------------- read_responses
\* the turn-completion test with the stop on errors left out
IsTerminalType_ResultOnly(msg_type) == msg_type = "result"

\* the turn-completion test on msg_type
IsTerminalType(msg_type) == msg_type = "result" \/ msg_type = "error"

RECURSIVE ProcessBuffer(_)
\* the loop `while "\n" in buffer`: [buffer, ys, status]; ys are the values
\* yielded, status is "more" (the loop ran out of lines), "return" (a
\* terminal envelope was yielded) or the name of the exception raised
ProcessBuffer(buf) ==
  LET n == FirstNewline(buf)
      line == SubSeq(buf, 1, n - 1)
      rest == SubSeq(buf, n + 1, Len(buf))
      parsed == json_loads(line)
      msg == parsed.value
  IN  IF n = 0 THEN [buffer |-> buf, ys |-> <<>>, status |-> "more"]
      ELSE IF Strip(line) = <<>> THEN ProcessBuffer(rest)
      ELSE IF ~parsed.ok THEN ProcessBuffer(rest)
      ELSE IF ~IsDict(msg)
        THEN [buffer |-> rest, ys |-> <<msg>>, status |-> "AttributeError"]
      ELSE IF IsTerminalType(Get(msg, "type", ""))
        THEN [buffer |-> rest, ys |-> <<msg>>, status |-> "return"]
      ELSE LET r == ProcessBuffer(rest)
           IN  [buffer |-> r.buffer, ys |-> <<msg>> \o r.ys, status |-> r.status]

\* one iteration of `while True` that read a non-empty chunk: decode it,
\* append it to buffer, run the line loop; [buffer, ys, status] as above
read_chunk(buf, chunk) ==
  LET d == decode_utf8(chunk)
  IN  IF d.ok THEN ProcessBuffer(buf \o d.chars)
      ELSE [buffer |-> buf, ys |-> <<>>, status |-> "UnicodeDecodeError"]

Min(a, b) == IF a <= b THEN a ELSE b

\* the client's state when a pass that is not the last step of the call ends
\* without an exception: (pc, outcome) after it
AfterPass ==
  IF pass = "primary"
    THEN IF mode = "call" THEN [pc |-> "extract", outcome |-> "none"]
         ELSE IF clear THEN [pc |-> "send_clear", outcome |-> "none"]
         ELSE [pc |-> "done", outcome |-> "returned"]
    ELSE [pc |-> "done", outcome |-> "returned"]

\* with open(FIFO_OUT, "r"), FIFO_OUT missing
ReadOpenMissing ==
  /\ pc = "open" /\ ~fifoOutExists
  /\ outOpens' = outOpens + 1
  /\ pc' = "done" /\ outcome' = "FileNotFoundError"
  /\ UNCHANGED gwVars
  /\ UNCHANGED <<mode, clear, fifoInExists, fifoOutExists, pass, buffer, yielded,
                 chunks, responses, result, printed, callNo, inWrites,
                 inbound, pipe, agentVars>>

\* with open(FIFO_OUT, "r"): returns once the FIFO has a writer; buffer = ""
ReadOpen ==
  /\ pc = "open" /\ fifoOutExists /\ writerOpen
  /\ outOpens' = outOpens + 1
  /\ pc' = "select"
  /\ buffer' = <<>> /\ yielded' = <<>> /\ chunks' = <<>>
  /\ UNCHANGED gwVars
  /\ UNCHANGED <<mode, clear, fifoInExists, fifoOutExists, pass, responses,
                 result, printed, outcome, callNo, inWrites, inbound, pipe,
                 agentVars>>

\* the outcome of a TimeoutError were it caught around every pass
TimeoutOutcome_CaughtAlways == "returned"

\* what a TimeoutError of the running pass becomes: call and main catch it
\* around the drain pass only
TimeoutOutcome == IF pass = "drain" THEN "returned" ELSE "TimeoutError"

\* select.select times out: nothing to read for `timeout` seconds
\* (a FIFO whose writers are gone is at end-of-file, which is readable)
SelectTimeout ==
  /\ pc = "select" /\ pipe = <<>> /\ writerOpen
  /\ pc' = "done" /\ outcome' = TimeoutOutcome
  /\ UNCHANGED gwVars
  /\ UNCHANGED <<mode, clear, fifoInExists, fifoOutExists, pass, buffer, yielded,
                 chunks, responses, result, printed, callNo, inWrites,
                 outOpens, inbound, pipe, agentVars>>

\* select.select reports fd readable
SelectReady ==
  /\ pc = "select" /\ (pipe # <<>> \/ ~writerOpen)
  /\ pc' = "read"
  /\ UNCHANGED gwVars
  /\ UNCHANGED <<mode, clear, fifoInExists, fifoOutExists, pass, buffer, yielded,
                 chunks, responses, result, printed, outcome, callNo,
                 inWrites, outOpens, inbound, pipe, agentVars>>

\* os.read returned b"": `if not chunk: continue`
ReadEmpty ==
  /\ pc = "read" /\ pipe = <<>>
  /\ pc' = "select"
  /\ UNCHANGED gwVars
  /\ UNCHANGED <<mode, clear, fifoInExists, fifoOutExists, pass, buffer, yielded,
                 chunks, responses, result, printed, outcome, callNo,
                 inWrites, outOpens, inbound, pipe, agentVars>>

\* os.read returned bytes: decode, append to buffer, run the line loop
ReadChunk ==
  /\ pc = "read" /\ pipe # <<>>
  /\ LET k == Min(Len(pipe), READ_SIZE)
         chunk == SubSeq(pipe, 1, k)
         r == read_chunk(buffer, chunk)
         ys == r.ys
         status == r.status
         after == AfterPass
     IN  /\ pipe' = SubSeq(pipe, k + 1, Len(pipe))
         /\ chunks' = Append(chunks, chunk)
         /\ yielded' = yielded \o ys
         /\ printed' = IF mode = "raw" THEN printed \o ys ELSE printed
         /\ buffer' = IF status = "more" THEN r.buffer ELSE <<>>
         /\ responses' = IF status = "return" /\ pass = "primary" /\ mode = "call"
                           THEN yielded \o ys ELSE responses
         /\ pc' = IF status = "more" THEN "select"
                  ELSE IF status = "return" THEN after.pc ELSE "done"
         /\ outcome' = IF status = "more" THEN outcome
                       ELSE IF status = "return" THEN after.outcome ELSE status
  /\ UNCHANGED gwVars
  /\ UNCHANGED <<mode, clear, fifoInExists, fifoOutExists, pass, result, callNo,
                 inWrites, outOpens, inbound, writerOpen, agentTurn, agentLine,
                 agentCount>>

\* ------------------------------------------------- send_message, send_clear
\* the user envelope send_message / send_clear writes
UserEnvelope(content) ==
  [type |-> "user", message |-> [role |-> "user", content |-> content]]

\* wrap_prompt: the prompt followed by the one-shot instructions
wrap_prompt(prompt) == <<prompt, "ONE_SHOT_INSTRUCTIONS">>

\* the inbound channel after open(FIFO_IN, "w") and a write of one line:
\* with no FIFO at the path, open creates a regular file nobody reads
InboundAfterWrite(env) == IF fifoInExists THEN Append(inbound, env) ELSE inbound

\* ------------------------------------------------------------ call and main
\* call: os.path.exists(FIFO_IN) fails: RuntimeError("Daemon not running")
CallNoDaemon ==
  /\ pc = "start" /\ mode = "call" /\ ~fifoInExists
  /\ pc' = "done" /\ outcome' = "RuntimeError"
  /\ UNCHANGED gwVars
  /\ UNCHANGED <<mode, clear, fifoInExists, fifoOutExists, pass, buffer, yielded,
                 chunks, responses, result, printed, callNo, inWrites,
                 outOpens, inbound, pipe, agentVars>>

\* whether the path that submits the prompt checks the endpoint first:
\* call does, the --raw branch of main does not
CallSubmits == mode = "call" /\ fifoInExists

\* call: prompt = wrap_prompt(prompt); send_message(prompt)
\* main --raw: prompt = wrap_prompt(prompt); send_message(prompt)
SendMessage ==
  /\ pc = "start" /\ (CallSubmits \/ mode = "raw")
  /\ LET env == UserEnvelope(wrap_prompt("PROMPT"))
     IN  /\ inWrites' = Append(inWrites, env)
         /\ inbound' = InboundAfterWrite(env)
  /\ pc' = "open" /\ pass' = "primary"
  /\ UNCHANGED gwVars
  /\ UNCHANGED <<mode, clear, fifoInExists, fifoOutExists, buffer, yielded,
                 chunks, responses, result, printed, outcome, callNo,
                 outOpens, pipe, agentVars>>

\* call: result = extract_text(responses), then `if clear:` or `return result`
CallExtract ==
  /\ pc = "extract"
  /\ result' = extract_text(responses)
  /\ pc' = IF clear THEN "send_clear" ELSE "done"
  /\ outcome' = IF clear THEN outcome ELSE "returned"
  /\ UNCHANGED gwVars
  /\ UNCHANGED <<mode, clear, fifoInExists, fifoOutExists, pass, buffer, yielded,
                 chunks, responses, printed, callNo, inWrites, outOpens,
                 inbound, pipe, agentVars>>

\* send_clear(), in call and in main --raw
SendClear ==
  /\ pc = "send_clear"
  /\ LET env == UserEnvelope("/clear")
     IN  /\ inWrites' = Append(inWrites, env)
         /\ inbound' = InboundAfterWrite(env)
  /\ pc' = "open" /\ pass' = "drain"
  /\ UNCHANGED gwVars
  /\ UNCHANGED <<mode, clear, fifoInExists, fifoOutExists, buffer, yielded,
                 chunks, responses, result, printed, outcome, callNo,
                 outOpens, pipe, agentVars>>

\* the next call on the same channel pair, made once this one has ended
NextCall ==
  /\ pc = "done" /\ callNo < MaxCalls
  /\ callNo' = callNo + 1
  /\ pc' = "start" /\ pass' = "none" /\ outcome' = "none"
  /\ buffer' = <<>> /\ yielded' = <<>> /\ chunks' = <<>>
  /\ responses' = <<>> /\ result' = <<>> /\ printed' = <<>>
  /\ inWrites' = <<>> /\ outOpens' = 0
  /\ UNCHANGED gwVars
  /\ UNCHANGED <<mode, clear, fifoInExists, fifoOutExists, inbound, pipe,
                 agentVars>>

\* ----------------------------------------------------------------- the agent
\* the lines (without their newline) the agent may write in answer to a prompt
PromptLines ==
  { <<"r", "h">>,        \* a result envelope
    <<"e">>,             \* an error envelope
    <<"a", "C3", "A9">>, \* an assistant envelope whose text is U+00E9
    <<"5">>,             \* a JSON document that is no object
    <<"x">>,             \* no JSON document
    <<" ">>,             \* a blank line
    <<"A9">> }           \* bytes that are not UTF-8

\* the lines the agent may write in answer to "/clear": its acknowledgement
ClearLines == { <<"r", "c">>, <<"a", "c">> }

AgentLines(turn) == IF turn = "/clear" THEN ClearLines ELSE PromptLines

\* the agent takes the next inbound envelope, between two lines of its output
AgentReceive ==
  /\ inbound # <<>> /\ agentLine = <<>> /\ writerOpen
  /\ agentTurn' = (IF Head(inbound).message.content = "/clear"
                     THEN "/clear" ELSE "prompt")
  /\ inbound' = Tail(inbound)
  /\ UNCHANGED gwVars
  /\ UNCHANGED <<clientVars, pipe, writerOpen, agentLine, agentCount>>

\* the agent starts a line of its answer and writes its first byte
AgentStartLine ==
  /\ agentTurn # "none" /\ agentLine = <<>> /\ writerOpen
  /\ agentCount < MaxLines
  /\ \E l \in AgentLines(agentTurn) :
       /\ pipe' = Append(pipe, Head(l))
       /\ agentLine' = Tail(l) \o <<"\n">>
  /\ agentCount' = agentCount + 1
  /\ UNCHANGED gwVars
  /\ UNCHANGED <<clientVars, inbound, writerOpen, agentTurn>>

\* the agent writes the next byte of its line
AgentWriteByte ==
  /\ agentLine # <<>> /\ writerOpen
  /\ pipe' = Append(pipe, Head(agentLine))
  /\ agentLine' = Tail(agentLine)
  /\ UNCHANGED gwVars
  /\ UNCHANGED <<clientVars, inbound, writerOpen, agentTurn, agentCount>>

\* the agent exits, or closes its end of the outbound channel
AgentExit ==
  /\ writerOpen
  /\ writerOpen' = FALSE
  /\ UNCHANGED gwVars
  /\ UNCHANGED <<clientVars, inbound, pipe, agentTurn, agentLine, agentCount>>

\* ------------------------------------------------------------ specification
Init ==
  /\ GatewayIdle
  /\ mode \in {"call", "raw"}
  /\ clear \in BOOLEAN
  /\ fifoInExists \in BOOLEAN
  /\ fifoOutExists \in BOOLEAN
  /\ pc = "start" /\ pass = "none" /\ outcome = "none"
  /\ buffer = <<>> /\ yielded = <<>> /\ chunks = <<>>
  /\ responses = <<>> /\ result = <<>> /\ printed = <<>>
  /\ callNo = 1 /\ inWrites = <<>> /\ outOpens = 0
  /\ inbound = <<>> /\ pipe = <<>> /\ writerOpen = TRUE
  /\ agentTurn = "none" /\ agentLine = <<>> /\ agentCount = 0

Next ==
  \/ CallNoDaemon
  \/ SendMessage
  \/ ReadOpenMissing
  \/ ReadOpen
  \/ SelectTimeout
  \/ SelectReady
  \/ ReadEmpty
  \/ ReadChunk
  \/ CallExtract
  \/ SendClear
  \/ NextCall
  \/ AgentReceive
  \/ AgentStartLine
  \/ AgentWriteByte
  \/ AgentExit

Spec == Init /\ [][Next]_allvars

\* the client's steps, which run whenever they can (a running process);
\* nothing makes the agent take a step
ClientNext ==
  \/ CallNoDaemon \/ SendMessage \/ ReadOpenMissing \/ ReadOpen
  \/ SelectTimeout \/ SelectReady \/ ReadEmpty \/ ReadChunk
  \/ CallExtract \/ SendClear

FairSpec == Spec /\ WF_allvars(ClientNext)

\* ===================================================== agent_server.py
\* a Python string literal is the sequence of its characters
STR_BEARER == <<"B", "e", "a", "r", "e", "r", " ">>
STR_ERROR == <<"E", "r", "r", "o", "r", ":", " ">>
STR_FAILED == <<"A", "g", "e", "n", "t", " ", "e", "x", "e", "c", "u", "t", "i", "o", "n", " ", "f", "a", "i", "l", "e", "d">>
STR_TIMED_OUT == <<"A", "g", "e", "n", "t", " ", "e", "x", "e", "c", "u", "t", "i", "o", "n", " ", "t", "i", "m", "e", "d", " ", "o", "u", "t">>
STR_SYSTEM == <<"[", "S", "y", "s", "t", "e", "m", "]", ":", " ">>
STR_PREVIOUS == <<"[", "P", "r", "e", "v", "i", "o", "u", "s", " ", "r", "e", "s", "p", "o", "n", "s", "e", "]", ":", " ">>

\* a JSON string and a JSON array, as json.loads returns them
JStr(chars) == [json_str |-> chars]
JList(items) == [json_list |-> items]

\* `not v` for a value json.loads returned: None, {}, [] and "" are false
Falsy(v) ==
  \/ v = None
  \/ v = <<>>
  \/ v = JStr(<<>>)
  \/ v = JList(<<>>)

\* s.startswith(prefix)
StartsWith(s, prefix) ==
  Len(s) >= Len(prefix) /\ SubSeq(s, 1, Len(prefix)) = prefix

\* check_auth with the prefix test left out: any header ending in the key
check_auth_AnyHeader ==
  \/ API_KEY = <<>>
  \/ LET auth == Get(reqHeaders, "Authorization", <<>>)
     IN  Len(auth) >= Len(API_KEY)
         /\ SubSeq(auth, Len(auth) - Len(API_KEY) + 1, Len(auth)) = API_KEY

\* check_auth()
check_auth ==
  IF API_KEY = <<>> THEN TRUE
  ELSE LET auth == Get(reqHeaders, "Authorization", <<>>)
       IN  IF StartsWith(auth, STR_BEARER)
             THEN SubSeq(auth, 8, Len(auth)) = API_KEY
             ELSE FALSE

\* MODEL_MAP
MODEL_MAP ==
  ("claude-code" :> [agent |-> "claude", model |-> None]) @@
  ("claude-code-opus" :> [agent |-> "claude", model |-> JStr(<<"opus">>)]) @@
  ("claude-code-sonnet" :> [agent |-> "claude", model |-> JStr(<<"sonnet">>)]) @@
  ("amazon-q" :> [agent |-> "amazonq", model |-> None]) @@
  ("amazonq" :> [agent |-> "amazonq", model |-> None]) @@
  ("codex" :> [agent |-> "codex", model |-> None]) @@
  ("aider" :> [agent |-> "aider", model |-> None]) @@
  ("aider-gpt4" :> [agent |-> "aider", model |-> JStr(<<"gpt-4">>)]) @@
  ("aider-claude" :> [agent |-> "aider", model |-> JStr(<<"claude-3-opus-20240229">>)])

RECURSIVE JoinWith(_, _)
\* sep.join(parts)
JoinWith(parts, sep) ==
  IF parts = <<>> THEN <<>>
  ELSE IF Len(parts) = 1 THEN parts[1]
  ELSE parts[1] \o sep \o JoinWith(Tail(parts), sep)

RECURSIVE ContentTexts(_)
\* extract_content, the loop over the items of a content array
ContentTexts(items) ==
  IF items = <<>> THEN <<>>
  ELSE LET item == Head(items)
       IN  (IF "json_str" \in DOMAIN item THEN <<item.json_str>>
            ELSE IF IsDict(item) /\ "json_list" \notin DOMAIN item
                    /\ Get(item, "type", "None") = "text"
              THEN <<Get(item, "text", JStr(<<>>)).json_str>>
            ELSE <<>>) \o ContentTexts(Tail(items))

\* extract_content(content); str() of a value that is neither is not modelled:
\* every content of the model is a string, an array or None
extract_content(content) ==
  IF "json_str" \in DOMAIN content THEN content.json_str
  ELSE IF "json_list" \in DOMAIN content
    THEN JoinWith(ContentTexts(content.json_list), <<"\n">>)
  ELSE <<>>

RECURSIVE PromptParts(_)
\* messages_to_prompt, the loop over messages
PromptParts(messages) ==
  IF messages = <<>> THEN <<>>
  ELSE LET msg == Head(messages)
           role == Get(msg, "role", "user")
           content == extract_content(Get(msg, "content", JStr(<<>>)))
       IN  (IF role = "system" THEN <<STR_SYSTEM \o content>>
            ELSE IF role = "user" THEN <<content>>
            ELSE IF role = "assistant" THEN <<STR_PREVIOUS \o content>>
            ELSE <<>>) \o PromptParts(Tail(messages))

\* messages_to_prompt(messages)
messages_to_prompt(messages) == JoinWith(PromptParts(messages), <<"\n", "\n">>)

\* what subprocess.run may do with the command
AgentRuns ==
  { [returncode |-> 0, stdout |-> <<" ", "o", "k", " ", "g", "o", "\n">>, stderr |-> <<>>],
    [returncode |-> 1, stdout |-> <<>>, stderr |-> <<"b", "o", "o", "m", "\n">>],
    [returncode |-> 1, stdout |-> <<"o">>, stderr |-> <<>>],
    [raises |-> "TimeoutExpired"],
    [raises |-> "FileNotFoundError", message |-> <<"n", "o", " ", "f", "i", "l", "e">>] }

\* the command line with the sub-model option left out
AgentCommand_NoSubModel(prompt, agent, model, context, json_schema) ==
  <<"AGENT_CALL", "-a", agent, "-q">>
    \o (IF Falsy(context) THEN <<>> ELSE <<"-c", context>>)
    \o (IF Falsy(json_schema) THEN <<>> ELSE <<"-j", json_schema>>)
    \o <<prompt>>

\* call_agent: the command line built for the agent-call script
AgentCommand(prompt, agent, model, context, json_schema) ==
  <<"AGENT_CALL", "-a", agent, "-q">>
    \o (IF Falsy(model) THEN <<>> ELSE <<"-m", model>>)
    \o (IF Falsy(context) THEN <<>> ELSE <<"-c", context>>)
    \o (IF Falsy(json_schema) THEN <<>> ELSE <<"-j", json_schema>>)
    \o <<prompt>>

\* call_agent with the timeout message returned without its "Error: " mark
call_agent_TimeoutUnmarked(run) ==
  IF "raises" \in DOMAIN run
    THEN IF run.raises = "TimeoutExpired" THEN STR_TIMED_OUT
         ELSE STR_ERROR \o run.message
  ELSE IF run.returncode # 0
    THEN LET stderr == Strip(run.stderr)
             error_msg == IF stderr # <<>> THEN stderr ELSE STR_FAILED
         IN  STR_ERROR \o error_msg
  ELSE Strip(run.stdout)

\* call_agent: the text returned for what subprocess.run did
call_agent(run) ==
  IF "raises" \in DOMAIN run
    THEN IF run.raises = "TimeoutExpired" THEN STR_ERROR \o STR_TIMED_OUT
         ELSE STR_ERROR \o run.message
  ELSE IF run.returncode # 0
    THEN LET stderr == Strip(run.stderr)
             error_msg == IF stderr # <<>> THEN stderr ELSE STR_FAILED
         IN  STR_ERROR \o error_msg
  ELSE Strip(run.stdout)

RECURSIVE WordCount(_)
\* len(s.split())
WordCount(s) ==
  IF s = <<>> THEN 0
  ELSE IF Head(s) \in Whitespace THEN WordCount(Tail(s))
  ELSE IF Len(s) = 1 \/ s[2] \in Whitespace THEN 1 + WordCount(Tail(s))
  ELSE WordCount(Tail(s))

\* create_response(content, model): completion_id and the two token counts
\* take their defaults
create_response(content, model) ==
  LET prompt_tokens == WordCount(content) \div 2
      completion_tokens == WordCount(content)
  IN  [id |-> "chatcmpl-ID",
       object |-> "chat.completion",
       created |-> "NOW",
       model |-> model,
       choices |-> << [index |-> 0,
                       message |-> [role |-> "assistant", content |-> content],
                       finish_reason |-> "stop"] >>,
       usage |-> [prompt_tokens |-> prompt_tokens,
                  completion_tokens |-> completion_tokens,
                  total_tokens |-> prompt_tokens + completion_tokens]]

\* stream_response: chunk_size
CHUNK_SIZE == 20

\* the chunks without the `if not chunks: chunks = [""]` fallback
StreamChunks_NoEmptyFallback(content) ==
  LET n == (Len(content) + CHUNK_SIZE - 1) \div CHUNK_SIZE
  IN  [i \in 1..n |->
         SubSeq(content, (i - 1) * CHUNK_SIZE + 1,
                Min(i * CHUNK_SIZE, Len(content)))]

\* stream_response: chunks
StreamChunks(content) ==
  LET n == (Len(content) + CHUNK_SIZE - 1) \div CHUNK_SIZE
      chunks_ == [i \in 1..n |->
                   SubSeq(content, (i - 1) * CHUNK_SIZE + 1,
                          Min(i * CHUNK_SIZE, Len(content)))]
  IN  IF chunks_ = <<>> THEN << <<>> >> ELSE chunks_

\* stream_response(content, model): the events, in order
stream_response(content, model) ==
  LET chunks_ == StreamChunks(content)
  IN  [i \in 1..Len(chunks_) |->
         [id |-> "chatcmpl-ID",
          object |-> "chat.completion.chunk",
          created |-> "NOW",
          model |-> model,
          choices |-> << [index |-> 0,
                          delta |-> IF chunks_[i] # <<>>
                                      THEN [content |-> chunks_[i]] ELSE <<>>,
                          finish_reason |-> IF i < Len(chunks_)
                                              THEN None ELSE JStr(<<"stop">>)] >>]]
        \o << "[DONE]" >>

\* jsonify({"error": {...}}), httpStatus
ErrorBody(message, type) == [error |-> [message |-> message, type |-> type]]
ErrorBodyNoType(message) == [error |-> [message |-> message]]

\* chat_completions: `if not check_auth(): return ..., 401`
GwAuth ==
  /\ gwpc = "auth"
  /\ IF check_auth
       THEN /\ gwpc' = "parse"
            /\ UNCHANGED <<httpStatus, respBody>>
       ELSE /\ gwpc' = "done"
            /\ httpStatus' = 401
            /\ respBody' = ErrorBody("Invalid API key", "auth_error")
  /\ UNCHANGED <<API_KEY, FORCE_AGENT, reqHeaders, reqBody, data, routed,
                 response_content, invocations, agentRun>>
  /\ UNCHANGED vars

\* chat_completions: data = request.get_json(); `if not data:`
GwParse ==
  /\ gwpc = "parse"
  /\ IF reqBody.kind = "malformed"
       THEN \* get_json raises inside the try: the handler's `except Exception`
            /\ gwpc' = "done"
            /\ httpStatus' = 500
            /\ respBody' = ErrorBody("400 Bad Request", "internal_error")
            /\ data' = data
       ELSE IF Falsy(reqBody.value)
         THEN /\ gwpc' = "done"
              /\ httpStatus' = 400
              /\ respBody' = ErrorBodyNoType("Request body required")
              /\ data' = data
         ELSE /\ gwpc' = "validate"
              /\ data' = reqBody.value
              /\ UNCHANGED <<httpStatus, respBody>>
  /\ UNCHANGED <<API_KEY, FORCE_AGENT, reqHeaders, reqBody, routed,
                 response_content, invocations, agentRun>>
  /\ UNCHANGED vars

\* chat_completions: the request parameters, `if not messages:`, the routing
\* table lookup, the FORCE_AGENT override and messages_to_prompt
GwValidate ==
  /\ gwpc = "validate"
  /\ LET model_name == Get(data, "model", "claude-code")
         messages == Get(data, "messages", JList(<<>>))
         model_config == Get(MODEL_MAP, model_name, None)
     IN  IF Falsy(messages)
           THEN /\ gwpc' = "done"
                /\ httpStatus' = 400
                /\ respBody' = ErrorBodyNoType("messages field required")
                /\ routed' = routed
         ELSE IF Falsy(model_config)
           THEN /\ gwpc' = "done"
                /\ httpStatus' = 400
                /\ respBody' = ErrorBody(<<"Unknown model: ", model_name>>,
                                         "invalid_request_error")
                /\ routed' = routed
         ELSE /\ gwpc' = "invoke"
              /\ routed' = [agent |-> IF FORCE_AGENT # "" THEN FORCE_AGENT
                                      ELSE model_config.agent,
                            model |-> IF FORCE_AGENT # "" THEN None
                                      ELSE model_config.model,
                            prompt |-> messages_to_prompt(messages.json_list),
                            context |-> Get(data, "context", None),
                            json_schema |-> None]
              /\ UNCHANGED <<httpStatus, respBody>>
  /\ UNCHANGED <<API_KEY, FORCE_AGENT, reqHeaders, reqBody, data,
                 response_content, invocations, agentRun>>
  /\ UNCHANGED vars

\* chat_completions: response_content = call_agent(...)
GwInvoke ==
  /\ gwpc = "invoke"
  /\ \E run \in AgentRuns :
       /\ agentRun' = run
       /\ response_content' = call_agent(run)
  /\ invocations' = Append(invocations,
                      AgentCommand(routed.prompt, routed.agent, routed.model,
                                   routed.context, routed.json_schema))
  /\ gwpc' = "respond"
  /\ UNCHANGED <<API_KEY, FORCE_AGENT, reqHeaders, reqBody, data, routed,
                 httpStatus, respBody>>
  /\ UNCHANGED vars

\* chat_completions: the streaming or the single-object response
GwRespond ==
  /\ gwpc = "respond"
  /\ LET model_name == Get(data, "model", "claude-code")
         stream == Get(data, "stream", FALSE)
     IN  respBody' = IF stream THEN stream_response(response_content, model_name)
                     ELSE create_response(response_content, model_name)
  /\ httpStatus' = 200
  /\ gwpc' = "done"
  /\ UNCHANGED <<API_KEY, FORCE_AGENT, reqHeaders, reqBody, data, routed,
                 response_content, invocations, agentRun>>
  /\ UNCHANGED vars

\* the JSON object with the fields `keys`
RequestObject(keys, model, messages, stream) ==
  [k \in keys |-> IF k = "model" THEN model
                  ELSE IF k = "messages" THEN messages ELSE stream]

ModelChoices == {"claude-code-opus", "amazon-q", "gpt-4"}

MessagesChoices ==
  { JList(<<>>),
    JList(<< [role |-> "user", content |-> JStr(<<"H", "i">>)] >>),
    JList(<< [role |-> "system", content |-> JStr(<<"B", "e">>)],
             [role |-> "user",
              content |-> JList(<< [type |-> "text", text |-> JStr(<<"H", "i">>)] >>)] >>) }

\* what request.get_json() has to work on
RequestBodies ==
  { [kind |-> "json", value |-> None], [kind |-> "malformed", value |-> None] }
    \cup { [kind |-> "json", value |-> RequestObject(keys, m, ms, TRUE)] :
             keys \in SUBSET {"model", "messages", "stream"},
             m \in ModelChoices, ms \in MessagesChoices }

\* the request's headers: the key sent right, wrong, without or with a
\* misspelt scheme, with an empty token, or no Authorization header
RequestHeaders ==
  { <<>>,
    [Authorization |-> STR_BEARER \o <<"k">>],
    [Authorization |-> STR_BEARER \o <<"z">>],
    [Authorization |-> STR_BEARER],
    [Authorization |-> <<"k">>],
    [Authorization |-> <<"b", "e", "a", "r", "e", "r", " ", "k">>] }

\* no session call is being made
SessionIdle ==
  /\ mode = "call" /\ clear = FALSE
  /\ fifoInExists = TRUE /\ fifoOutExists = TRUE
  /\ pc = "idle" /\ pass = "none" /\ outcome = "none"
  /\ buffer = <<>> /\ yielded = <<>> /\ chunks = <<>>
  /\ responses = <<>> /\ result = <<>> /\ printed = <<>>
  /\ callNo = 1 /\ inWrites = <<>> /\ outOpens = 0
  /\ inbound = <<>> /\ pipe = <<>> /\ writerOpen = TRUE
  /\ agentTurn = "none" /\ agentLine = <<>> /\ agentCount = 0

\* a chat-completions request has arrived at a configured gateway
InitGateway ==
  /\ SessionIdle
  /\ API_KEY \in {<<>>, <<"k">>}
  /\ FORCE_AGENT \in {"", "codex"}
  /\ reqHeaders \in RequestHeaders
  /\ reqBody \in RequestBodies
  /\ gwpc = "auth" /\ data = None /\ routed = None
  /\ response_content = <<>> /\ httpStatus = 0 /\ respBody = None
  /\ invocations = <<>> /\ agentRun = None

NextGateway == GwAuth \/ GwParse \/ GwValidate \/ GwInvoke \/ GwRespond

SpecGateway == InitGateway /\ [][NextGateway]_allvars

\* --------------------------------------------- extract_text as a function
\* envelopes of every shape extract_text tells apart
EnvelopeSamples ==
  { [type |-> "result", result |-> <<"h">>],
    [type |-> "result"],
    [type |-> "error"],
    [type |-> "assistant",
     message |-> [content |-> << [type |-> "text", text |-> <<"a">>],
                                 [type |-> "tool_use", name |-> "Bash"],
                                 [json_scalar |-> 5],
                                 [type |-> "text", text |-> <<"b">>] >>]],
    [type |-> "assistant"],
    [type |-> "content_block_delta",
     delta |-> [type |-> "text_delta", text |-> <<"d">>]],
    [type |-> "content_block_delta",
     delta |-> [type |-> "input_json_delta", partial_json |-> <<"j">>]],
    [type |-> "system"],
    [subtype |-> "init"] }

RECURSIVE SeqsUpTo(_, _)
\* the sequences over S of length at most n
SeqsUpTo(S, n) ==
  IF n = 0 THEN {<<>>}
  ELSE LET shorter == SeqsUpTo(S, n - 1)
       IN  shorter \cup {Append(q, x) : q \in {t \in shorter : Len(t) = n - 1}, x \in S}

\* extract_text is about to be applied to any list of envelopes
InitExtract ==
  /\ GatewayIdle
  /\ mode = "call" /\ clear = FALSE
  /\ fifoInExists = TRUE /\ fifoOutExists = TRUE
  /\ pc = "extract_text" /\ pass = "none" /\ outcome = "none"
  /\ buffer = <<>> /\ yielded = <<>> /\ chunks = <<>>
  /\ responses \in SeqsUpTo(EnvelopeSamples, MaxEnvelopes)
  /\ result = <<>> /\ printed = <<>>
  /\ callNo = 1 /\ inWrites = <<>> /\ outOpens = 0
  /\ inbound = <<>> /\ pipe = <<>> /\ writerOpen = TRUE
  /\ agentTurn = "none" /\ agentLine = <<>> /\ agentCount = 0

\* result = extract_text(responses)
ApplyExtractText ==
  /\ pc = "extract_text"
  /\ result' = extract_text(responses)
  /\ pc' = "extracted"
  /\ UNCHANGED gwVars
  /\ UNCHANGED <<mode, clear, fifoInExists, fifoOutExists, pass, buffer, yielded,
                 chunks, responses, printed, outcome, callNo, inWrites,
                 outOpens, inbound, pipe, agentVars>>

NextExtract == ApplyExtractText

SpecExtract == InitExtract /\ [][NextExtract]_allvars

\* ---------------------------------------- messages_to_prompt as a function
STR_BE_TERSE == <<"B", "e", " ", "t", "e", "r", "s", "e">>

\* messages of every shape messages_to_prompt tells apart: the three roles it
\* names, another role, no role, and content as a string, as an array of
\* blocks or missing
MessageSamples ==
  { [role |-> "system", content |-> JStr(STR_BE_TERSE)],
    [role |-> "user", content |-> JStr(<<"H", "i">>)],
    [role |-> "assistant", content |-> JStr(<<"O", "k">>)],
    [role |-> "tool", content |-> JStr(<<"4", "2">>)],
    [role |-> "user",
     content |-> JList(<< [type |-> "text", text |-> JStr(<<"a">>)],
                          [type |-> "image_url"],
                          JStr(<<"b">>) >>)],
    [content |-> JStr(<<"n">>)],
    [role |-> "user"] }

\* messages_to_prompt is about to be applied to any history
InitPrompt ==
  /\ SessionIdle
  /\ API_KEY = <<>> /\ FORCE_AGENT = ""
  /\ reqHeaders = <<>> /\ reqBody = [kind |-> "json", value |-> None]
  /\ gwpc = "messages_to_prompt"
  /\ data \in {[messages |-> JList(ms)] : ms \in SeqsUpTo(MessageSamples, MaxMessages)}
  /\ routed = None
  /\ response_content = <<>> /\ httpStatus = 0 /\ respBody = None
  /\ invocations = <<>> /\ agentRun = None

\* prompt = messages_to_prompt(messages)
ApplyMessagesToPrompt ==
  /\ gwpc = "messages_to_prompt"
  /\ routed' = [prompt |-> messages_to_prompt(data.messages.json_list)]
  /\ gwpc' = "flattened"
  /\ UNCHANGED <<API_KEY, FORCE_AGENT, reqHeaders, reqBody, data,
                 response_content, httpStatus, respBody, invocations, agentRun>>
  /\ UNCHANGED vars

NextPrompt == ApplyMessagesToPrompt

SpecPrompt == InitPrompt /\ [][NextPrompt]_allvars

\* ------------------------------------------- stream_response as a function
\* a text of n characters; its letters repeat with period 3, from offset p
StreamText(n, p) == [i \in 1..n |-> <<"a", "b", "c">>[((i + p) % 3) + 1]]

\* stream_response is about to be applied to any completed text
InitStream ==
  /\ SessionIdle
  /\ API_KEY = <<>> /\ FORCE_AGENT = ""
  /\ reqHeaders = <<>> /\ reqBody = [kind |-> "json", value |-> None]
  /\ gwpc = "stream_response"
  /\ data \in {[model |-> m, stream |-> TRUE] : m \in {"claude-code", "codex"}}
  /\ routed = None
  /\ response_content \in {StreamText(n, p) : n \in 0..MaxTextLen, p \in 0..1}
  /\ httpStatus = 0 /\ respBody = None
  /\ invocations = <<>> /\ agentRun = None

\* the events of stream_response(response_content, model_name), all consumed
ApplyStreamResponse ==
  /\ gwpc = "stream_response"
  /\ respBody' = stream_response(response_content, data.model)
  /\ gwpc' = "streamed"
  /\ UNCHANGED <<API_KEY, FORCE_AGENT, reqHeaders, reqBody, data, routed,
                 response_content, httpStatus, invocations, agentRun>>
  /\ UNCHANGED vars

NextStream == ApplyStreamResponse

SpecStream == InitStream /\ [][NextStream]_allvars

\* ===================================================================== claims
\* the type of a yielded value, as the claims read it
TypeOf(v) == Get(v, "type", "")

IsTerminalEnvelope(v) == TypeOf(v) \in {"result", "error"}

Last(s) == s[Len(s)]

\* a read_responses pass is running
InPass == pc \in {"select", "read"}

\* C1: in one pass of read_responses every envelope yielded before the last
\* one has a non-terminal type, once a terminal envelope has been yielded the
\* pass is over (it reads and yields nothing further), and a pass that
\* returned handed over a sequence ending in a terminal envelope.
C1_NothingAfterTerminal ==
  /\ \A i \in 1..(Len(yielded) - 1) : ~IsTerminalEnvelope(yielded[i])
  /\ (yielded # <<>> /\ IsTerminalEnvelope(Last(yielded))) => ~InPass
  /\ pc = "extract" =>
       /\ responses = yielded /\ responses # <<>>
       /\ IsTerminalEnvelope(Last(responses))

\* C1 witness: a pass yielded a non-terminal envelope, then a terminal one,
\* and ended
C1_Witness ==
  /\ pc = "extract" /\ Len(responses) = 2
  /\ TypeOf(responses[1]) = "assistant" /\ TypeOf(responses[2]) = "error"

\* the text one envelope contributes when no result envelope overrides it
FragmentOf(env) ==
  IF TypeOf(env) = "assistant"
    THEN LET content == Get(Get(env, "message", <<>>), "content", <<>>)
             texts == SelectSeq(content,
                        LAMBDA b : IsDict(b) /\ Get(b, "type", "None") = "text")
         IN  Flatten([i \in 1..Len(texts) |-> Get(texts[i], "text", <<>>)])
  ELSE IF TypeOf(env) = "content_block_delta"
          /\ Get(Get(env, "delta", <<>>), "type", "None") = "text_delta"
    THEN Get(Get(env, "delta", <<>>), "text", <<>>)
  ELSE <<>>

\* the reference aggregator
ReferenceText(rs) ==
  LET results == {i \in 1..Len(rs) : TypeOf(rs[i]) = "result"}
  IN  IF results # {}
        THEN Get(rs[CHOOSE i \in results : \A j \in results : i <= j], "result", <<>>)
        ELSE Flatten([i \in 1..Len(rs) |-> FragmentOf(rs[i])])

\* C2: extract_text returns the result field of the result envelope when the
\* sequence has one, whatever came before it, and otherwise the fragments of
\* the assistant and content_block_delta envelopes joined in arrival order,
\* which is the empty text for a sequence holding only an error envelope.
C2_ExtractTextIsReference ==
  pc = "extracted" =>
    /\ result = ReferenceText(responses)
    /\ responses = <<[type |-> "error"]>> => result = <<>>

\* C2 witness: fragments were seen and a result envelope overrode them
C2_Witness ==
  /\ pc = "extracted" /\ Len(responses) = 3
  /\ FragmentOf(responses[1]) = <<"a", "b">>
  /\ FragmentOf(responses[2]) = <<"d">>
  /\ TypeOf(responses[3]) = "result"
  /\ result = <<"h">>

\* the envelopes the agent writes in answer to "/clear"
IsClearAck(v) ==
  \/ TypeOf(v) = "result" /\ Get(v, "result", <<>>) = <<"c">>
  \/ TypeOf(v) = "assistant" /\ extract_text(<<v>>) = <<"c">>

\* C3: no envelope the agent emits in answer to "/clear" is read by a primary
\* turn.
C3_AckNeverInPrimary ==
  pass = "primary" => \A i \in 1..Len(yielded) : ~IsClearAck(yielded[i])

\* C4: a turn of read_responses that was opened ends by returning after a
\* terminal envelope or with a timeout error, and in no other way.
C4_TurnEndsTwoWays ==
  (fifoOutExists /\ pass # "none" /\ pc = "done")
    => outcome \in {"returned", "TimeoutError"}

\* C5: a primary turn that is waiting for input always ends.
C5_PrimaryTurnEnds == (pass = "primary" /\ InPass) ~> ~InPass

\* the bytes of a line parse: they decode, the line is not blank, and
\* json.loads accepts it
LineParses(bytes) ==
  LET d == decode_utf8(bytes)
  IN  d.ok /\ Strip(d.chars) # <<>> /\ json_loads(d.chars).ok

\* position i of the byte stream b lies in a complete line (newline included)
\* that is blank or does not parse
InDroppedLine(b, i) ==
  \E e \in i..Len(b) :
    /\ b[e] = "\n"
    /\ \A j \in i..(e - 1) : b[j] # "\n"
    /\ LET before == {j \in 1..(i - 1) : b[j] = "\n"}
           start == IF before = {} THEN 1
                    ELSE 1 + CHOOSE j \in before : \A k \in before : k <= j
       IN  ~LineParses(SubSeq(b, start, e - 1))

RECURSIVE KeptBytes(_, _, _)
\* the bytes of b at positions from..to that lie in no dropped line
KeptBytes(b, from, to) ==
  IF from > to THEN <<>>
  ELSE (IF InDroppedLine(b, from) THEN <<>> ELSE <<b[from]>>)
         \o KeptBytes(b, from + 1, to)

RECURSIVE FilterChunks(_, _, _)
\* the chunks chs (which start at offset off of the stream b) with every
\* blank or non-parsing line of b removed
FilterChunks(chs, b, off) ==
  IF chs = <<>> THEN <<>>
  ELSE LET kept == KeptBytes(b, off + 1, off + Len(Head(chs)))
       IN  (IF kept = <<>> THEN <<>> ELSE <<kept>>)
             \o FilterChunks(Tail(chs), b, off + Len(Head(chs)))

RECURSIVE ReadPass(_, _, _)
\* the values one pass of read_responses yields from the chunks chs
ReadPass(chs, buf, ys) ==
  IF chs = <<>> THEN ys
  ELSE LET r == read_chunk(buf, Head(chs))
       IN  IF r.status = "more" THEN ReadPass(Tail(chs), r.buffer, ys \o r.ys)
           ELSE ys \o r.ys

\* C6: the envelopes a pass yields are those it would yield from the same
\* stream with every blank or non-parsing line removed.
C6_UnparsedLinesSkipped ==
  yielded = ReadPass(FilterChunks(chunks, Flatten(chunks), 0), <<>>, <<>>)

\* C7: a call with clear=True whose primary turn ended with a terminal
\* envelope returns the text aggregated from the primary turn's envelopes.
C7_DrainNeverFailsCall ==
  (mode = "call" /\ pass = "drain" /\ pc = "done")
    => (outcome = "returned" /\ result = extract_text(responses))

\* C8: with no inbound endpoint, the call fails with the daemon-not-reachable
\* error before any write to the inbound channel and any open of the
\* outbound channel.
C8_NoDaemonFailsBeforeWrite ==
  ~fifoInExists =>
    /\ inWrites = <<>> /\ outOpens = 0
    /\ pc = "done" => outcome = "RuntimeError"

\* the request carries the configured key as a bearer token, or no key is
\* configured
Authenticated ==
  \/ API_KEY = <<>>
  \/ reqHeaders = [Authorization |-> STR_BEARER \o API_KEY]

\* the request has a body with a non-empty messages array and a model (the
\* default one when it names none) of the routing table
ValidRequest ==
  /\ reqBody.kind = "json"
  /\ reqBody.value # None
  /\ "messages" \in DOMAIN reqBody.value
  /\ reqBody.value.messages.json_list # <<>>
  /\ Get(reqBody.value, "model", "claude-code") \in DOMAIN MODEL_MAP

\* C9: the agent is invoked at most once per request and only for a request
\* that passed authentication and validation; a request answered 400 or 401
\* was not handed to the agent; a request with a wrong or missing bearer token
\* is answered 401, and with no key configured no request is.
C9_InvokedOnlyAfterChecks ==
  /\ Len(invocations) <= 1
  /\ invocations # <<>> => (Authenticated /\ ValidRequest)
  /\ httpStatus \in {400, 401} => invocations = <<>>
  /\ (gwpc = "done" /\ ~Authenticated) => httpStatus = 401
  /\ API_KEY = <<>> => httpStatus # 401

\* C9 witness: with a key configured, an authenticated valid request reached
\* the agent and was answered
C9_Witness ==
  /\ gwpc = "done" /\ httpStatus = 200
  /\ API_KEY # <<>> /\ Len(invocations) = 1

\* C10: every 400 and 401 response has a body {error: {message, type}}.
C10_ErrorBodyHasMessageAndType ==
  httpStatus \in {400, 401} =>
    /\ "error" \in DOMAIN respBody
    /\ "message" \in DOMAIN respBody.error
    /\ "type" \in DOMAIN respBody.error

\* the request is authenticated and has a body with a non-empty messages array
AuthenticatedWithMessages ==
  /\ Authenticated
  /\ reqBody.kind = "json"
  /\ reqBody.value # None
  /\ "messages" \in DOMAIN reqBody.value
  /\ reqBody.value.messages.json_list # <<>>

\* the request carries a model field that names an entry of the routing table
NamesRoutedModel ==
  /\ reqBody.kind = "json"
  /\ reqBody.value # None
  /\ "model" \in DOMAIN reqBody.value
  /\ reqBody.value.model \in DOMAIN MODEL_MAP

\* C11: a request is handed to an agent only if its model field names an entry
\* of the routing table; a request (otherwise valid) whose model is unknown or
\* that carries no model field is answered 400 with error.type
\* "invalid_request_error".
C11_UnlistedModelRejected ==
  /\ invocations # <<>> => NamesRoutedModel
  /\ (gwpc = "done" /\ AuthenticatedWithMessages /\ ~NamesRoutedModel) =>
       /\ httpStatus = 400
       /\ respBody.error.type = "invalid_request_error"

\* the model name carried by every object of the answer
EchoedModels ==
  IF Get(data, "stream", FALSE)
    THEN {respBody[i].model : i \in 1..(Len(respBody) - 1)}
    ELSE {respBody.model}

\* C12: a request that names a model and was accepted is handed to the agent
\* the routing table holds for that name, with the table's sub-model (the
\* option -m) when it has one and none otherwise; with the override set it is
\* handed to the forced agent with no sub-model; "claude-code-opus" gives agent
\* claude and sub-model opus; the answer echoes the requested model name.
C12_RoutedPerTable ==
  ("model" \in DOMAIN data /\ invocations # <<>>) =>
    LET cmd == invocations[1]
        name == data.model
        forced == FORCE_AGENT # ""
        expAgent == IF forced THEN FORCE_AGENT ELSE MODEL_MAP[name].agent
        expModel == IF forced THEN None ELSE MODEL_MAP[name].model
    IN  /\ cmd[2] = "-a" /\ cmd[3] = expAgent
        /\ IF expModel = None
             THEN Len(cmd) = 5
             ELSE Len(cmd) = 7 /\ cmd[5] = "-m" /\ cmd[6] = expModel
        /\ (name = "claude-code-opus" /\ ~forced) =>
             (cmd[3] = "claude" /\ cmd[6] = JStr(<<"opus">>))
        /\ httpStatus = 200 => EchoedModels = {name}

\* C12 witness: with no override, a request for "claude-code-opus" was handed
\* to agent claude with sub-model opus and answered
C12_Witness ==
  /\ gwpc = "done" /\ httpStatus = 200 /\ FORCE_AGENT = ""
  /\ "model" \in DOMAIN data /\ data.model = "claude-code-opus"
  /\ Len(invocations) = 1 /\ Len(invocations[1]) = 7
  /\ invocations[1][3] = "claude"

\* the index of the first blank-line separator ("\n\n") of s, 0 when none
FirstBlankLine(s) ==
  LET at == {i \in 1..(Len(s) - 1) : s[i] = "\n" /\ s[i + 1] = "\n"}
  IN  IF at = {} THEN 0 ELSE CHOOSE i \in at : \A j \in at : i <= j

RECURSIVE Paragraphs(_)
\* s.split("\n\n")
Paragraphs(s) ==
  LET n == FirstBlankLine(s)
  IN  IF n = 0 THEN <<s>>
      ELSE <<SubSeq(s, 1, n - 1)>> \o Paragraphs(SubSeq(s, n + 2, Len(s)))

\* C13: the prompt of a history of n messages has n paragraphs, one per
\* message in message order, joined by a blank line: "[System]: " and the
\* content for a system message, the content for a user message,
\* "[Previous response]: " and the content for an assistant message; the
\* history [system "Be terse", user "Hi"] gives "[System]: Be terse\n\nHi".
C13_OneParagraphPerMessage ==
  gwpc = "flattened" =>
    LET ms == data.messages.json_list
        ps == Paragraphs(routed.prompt)
        text(i) == extract_content(Get(ms[i], "content", JStr(<<>>)))
        role(i) == Get(ms[i], "role", "")
    IN  /\ ms = <<>> => routed.prompt = <<>>
        /\ ms # <<>> =>
             /\ Len(ps) = Len(ms)
             /\ \A i \in 1..Len(ms) :
                  /\ role(i) = "system" => ps[i] = STR_SYSTEM \o text(i)
                  /\ role(i) = "user" => ps[i] = text(i)
                  /\ role(i) = "assistant" => ps[i] = STR_PREVIOUS \o text(i)
        /\ ms = << [role |-> "system", content |-> JStr(STR_BE_TERSE)],
                   [role |-> "user", content |-> JStr(<<"H", "i">>)] >>
             => routed.prompt = STR_SYSTEM \o STR_BE_TERSE \o <<"\n", "\n", "H", "i">>

\* the delta content and the finish reason of the chunk event ev
DeltaContent(ev) == Get(ev.choices[1].delta, "content", <<>>)

FinishReason(ev) == ev.choices[1].finish_reason

\* C14: a text of n > 0 characters is streamed as ceil(n/20) chunk events, each
\* carrying its chunk as delta, then one further event carrying the stop
\* reason, then the "[DONE]" event: for 45 characters 3 chunk events of 20, 20
\* and 5 characters, the stop-reason event and "[DONE]".
C14_ChunksThenStopThenDone ==
  (gwpc = "streamed" /\ response_content # <<>>) =>
    LET n == Len(response_content)
        k == (n + 19) \div 20
    IN  /\ Len(respBody) = k + 2
        /\ \A i \in 1..k :
             DeltaContent(respBody[i]) =
               SubSeq(response_content, 20 * (i - 1) + 1, Min(20 * i, n))
        /\ FinishReason(respBody[k + 1]) = JStr(<<"stop">>)
        /\ respBody[k + 2] = "[DONE]"
        /\ n = 45 => (k = 3 /\ Len(DeltaContent(respBody[3])) = 5)

\* C20: for every text, the empty one included, the deltas of the chunk events
\* concatenated in order are the text; every chunk event but the last carries
\* 20 characters and the last 1 to 20 (one event with an empty delta for the
\* empty text); the last chunk event, and no other, has finish reason "stop",
\* the others null; "[DONE]" follows as the last event; all chunk events carry
\* the same id and the same model.
C20_StreamReassembles ==
  gwpc = "streamed" =>
    LET m == Len(respBody) - 1
    IN  /\ m >= 1
        /\ respBody[m + 1] = "[DONE]"
        /\ Flatten([i \in 1..m |-> DeltaContent(respBody[i])]) = response_content
        /\ \A i \in 1..(m - 1) : Len(DeltaContent(respBody[i])) = 20
        /\ IF response_content = <<>>
             THEN m = 1 /\ DOMAIN respBody[1].choices[1].delta = {}
             ELSE Len(DeltaContent(respBody[m])) \in 1..20
        /\ FinishReason(respBody[m]) = JStr(<<"stop">>)
        /\ \A i \in 1..(m - 1) : FinishReason(respBody[i]) = None
        /\ \A i \in 1..m :
             /\ respBody[i].id = respBody[1].id
             /\ respBody[i].model = data.model

\* C20 witness: a text of 45 characters was streamed as three chunk events and
\* "[DONE]"
C20_Witness ==
  /\ gwpc = "streamed" /\ Len(response_content) = 45
  /\ Len(respBody) = 4 /\ Len(DeltaContent(respBody[3])) = 5

\* subprocess.run failed: a non-zero exit, the timeout, or no process started
AgentFailed ==
  /\ agentRun # None
  /\ ("raises" \in DOMAIN agentRun \/ Get(agentRun, "returncode", 0) # 0)

\* the answer is a well-formed completion whose text is `text`
CompletionWith(text) ==
  IF Get(data, "stream", FALSE)
    THEN /\ Len(respBody) >= 2
         /\ respBody[Len(respBody)] = "[DONE]"
         /\ Flatten([i \in 1..(Len(respBody) - 1) |-> DeltaContent(respBody[i])]) = text
         /\ FinishReason(respBody[Len(respBody) - 1]) = JStr(<<"stop">>)
    ELSE /\ respBody.object = "chat.completion"
         /\ Len(respBody.choices) = 1
         /\ respBody.choices[1].message = [role |-> "assistant", content |-> text]
         /\ respBody.choices[1].finish_reason = "stop"

\* C15: when the agent invocation of an accepted request fails (non-zero exit,
\* timeout, process not started), the text result begins with "Error: " and
\* the request is answered 200 with a well-formed completion, streamed or not,
\* that carries it; a non-zero exit with stderr "boom" gives exactly
\* "Error: boom" and one with an empty stderr "Error: Agent execution failed".
C15_AgentFailureIsErrorText ==
  AgentFailed =>
    /\ StartsWith(response_content, <<"E", "r", "r", "o", "r", ":", " ">>)
    /\ gwpc = "done" => (httpStatus = 200 /\ CompletionWith(response_content))
    /\ ("stderr" \in DOMAIN agentRun /\ Strip(agentRun.stderr) = <<"b", "o", "o", "m">>)
         => response_content = <<"E", "r", "r", "o", "r", ":", " ", "b", "o", "o", "m">>
    /\ ("stderr" \in DOMAIN agentRun /\ agentRun.stderr = <<>>)
         => response_content = <<"E", "r", "r", "o", "r", ":", " ">> \o STR_FAILED

\* C15 witness: the agent exited non-zero with stderr "boom" and the request
\* was answered 200 with a stream
C15_Witness ==
  /\ gwpc = "done" /\ httpStatus = 200 /\ AgentFailed
  /\ Get(agentRun, "returncode", 0) = 1 /\ agentRun.stderr # <<>>
  /\ Get(data, "stream", FALSE)
  /\ Len(respBody) = 2

\* the whitespace-delimited words of s: the positions where a word starts
WordStarts(s) ==
  {i \in 1..Len(s) : s[i] \notin Whitespace /\ (i = 1 \/ s[i - 1] \in Whitespace)}

\* C16: the usage of a non-streaming completion has prompt_tokens equal to
\* half (rounded down) the word count of the prompt sent to the agent,
\* completion_tokens equal to the word count of the completion text, and
\* total_tokens equal to their sum.
C16_UsageFromWordCounts ==
  (gwpc = "done" /\ httpStatus = 200 /\ ~Get(data, "stream", FALSE)) =>
    LET usage == respBody.usage
    IN  /\ usage.prompt_tokens = Cardinality(WordStarts(routed.prompt)) \div 2
        /\ usage.completion_tokens = Cardinality(WordStarts(response_content))
        /\ usage.total_tokens = usage.prompt_tokens + usage.completion_tokens

\* C17: while the clear-drain pass runs, nothing is added to what the caller
\* receives: neither the text call returns nor, in raw mode, the envelopes
\* printed change, so the output holds only what the primary turn produced.
C17_DrainOutputDiscarded ==
  [][(pass = "drain" /\ pass' = "drain") => (printed' = printed /\ result' = result)]_allvars

\* the bytes b without a trailing lead byte whose continuation has not come
WholeCharacters(b) ==
  IF b # <<>> /\ Last(b) = "C3" THEN SubSeq(b, 1, Len(b) - 1) ELSE b

\* C18: the envelopes a pass has yielded are those one read of all the bytes
\* read so far would yield, however the bytes were split across reads; a read
\* that ends inside a multi-byte character does not fail, the partial line is
\* kept until its newline arrives.
C18_SplitIndependent ==
  LET whole == WholeCharacters(Flatten(chunks))
  IN  decode_utf8(whole).ok =>
        /\ outcome # "UnicodeDecodeError"
        /\ yielded = read_chunk(<<>>, whole).ys

\* the envelopes call writes to the inbound channel
PromptEnvelope == UserEnvelope(wrap_prompt("PROMPT"))

ClearEnvelope == UserEnvelope("/clear")

\* the steps of the running call so far are in order
CallStepsInOrder ==
  mode = "call" =>
    /\ outOpens > 0 => (inWrites # <<>> /\ inWrites[1] = PromptEnvelope)
    /\ \A i \in 2..Len(inWrites) :
         /\ i = 2 /\ inWrites[i] = ClearEnvelope
         /\ responses # <<>> /\ IsTerminalEnvelope(Last(responses))
    /\ outOpens <= Len(inWrites)
    /\ (pc = "done" /\ outcome = "TimeoutError") =>
         (pass = "primary" /\ inWrites = <<PromptEnvelope>> /\ outOpens = 1)
    /\ (pc = "done" /\ outcome = "returned") =>
         /\ responses # <<>> /\ IsTerminalEnvelope(Last(responses))
         /\ inWrites = IF clear THEN <<PromptEnvelope, ClearEnvelope>>
                       ELSE <<PromptEnvelope>>

\* s is a prefix of t
IsPrefix(s, t) == Len(s) <= Len(t) /\ SubSeq(t, 1, Len(s)) = s

\* C19: in call, one user envelope carrying the prompt is written before any
\* read; "/clear" is written only as the second envelope, after the primary
\* turn ended with a terminal envelope; a call whose primary turn timed out
\* has failed with only the prompt written and one pass opened (no "/clear",
\* no drain), and while it stays ended nothing is read from the outbound
\* channel, so late output of the agent stays there.
C19_CallStepsInOrder ==
  /\ []CallStepsInOrder
  /\ [][(mode = "call" /\ pc = "done" /\ outcome = "TimeoutError" /\ pc' = "done")
          => (IsPrefix(pipe, pipe') /\ inWrites' = inWrites /\ outOpens' = outOpens)]_allvars

\* C19 witness: a call with clear requested failed on a timeout of its primary
\* turn, and output the agent wrote afterwards sits unread in the channel
C19_Witness ==
  /\ mode = "call" /\ clear /\ pc = "done" /\ outcome = "TimeoutError"
  /\ inWrites = <<PromptEnvelope>> /\ outOpens = 1
  /\ pipe # <<>>

====
